---- MODULE Spec2Model ----
(***************************************************************************)
(* A model of src/FBSNNs.py: the FBSNN base class (forward-backward        *)
(* stochastic neural network), its BSDE stepper loss_function, the path    *)
(* simulator fetch_minibatch, the trainer train and the predictor predict. *)
(*                                                                         *)
(* Numbers.  Floating-point tensors are modelled by exact integers.  The   *)
(* time unit is chosen so that dt = T/N and sqrt(dt) are integers.  The    *)
(* network is FeedForwardSubNet with layers = [D+1, 1]: no hidden layer,   *)
(* so it is the output Dense layer alone, u = kernel . [t, X] + bias.      *)
(* The problem functions of a subclass have constant coefficients, which   *)
(* keeps every residual affine in the trainable variables, so the loss is  *)
(* a quadratic in them and its gradient is an exact central difference.    *)
(* numpy's random generator is a process-wide deterministic stream: rng    *)
(* is its state, Init chooses the seed.                                    *)
(***************************************************************************)
EXTENDS Integers, Sequences, FiniteSets, TLC

\* ------------------------------------------------------------- bounds
MaxM == 2        \* trajectories
MaxN == 2        \* time steps
MaxD == 2        \* dimensions
MaxSqrtDt == 2   \* sqrt(T/N) ranges over 1..MaxSqrtDt
MaxSeed == 2     \* seeds of the random sources: 0..MaxSeed
MaxCoef == 1     \* coefficients of the problem functions: 0..MaxCoef
MaxFetch == 1    \* direct fetch_minibatch calls in one run
MaxCalls == 2    \* train calls in one run
MaxRate == 2     \* learning rates 1..MaxRate (in units of the Adam default)
MaxSteps == 11   \* optimizer steps in one run

\* ---------------------------------------------------- program constants
ReportEvery == 10    \* if it % 10 == 0
DefaultRate == 1     \* tf.keras.optimizers.Adam(): the default learning rate

\* ------------------------------------------------------------ helpers
RECURSIVE Sum(_, _)
\* f[1] + ... + f[n]
Sum(f, n) == IF n = 0 THEN 0 ELSE f[n] + Sum(f, n - 1)

RECURSIVE CumSum(_, _)
\* np.cumsum along the time axis: f[0] + ... + f[n]
CumSum(f, n) == IF n = 0 THEN f[0] ELSE f[n] + CumSum(f, n - 1)

Max(a, b) == IF a >= b THEN a ELSE b

Square(x) == x * x

Sign(x) == IF x > 0 THEN 1 ELSE IF x < 0 THEN -1 ELSE 0

\* np.sqrt on the perfect squares the model uses
Sqrt(x) == CHOOSE r \in 0..x : r * r = x

\* shape of an array: trajectories, time points, width
Rows(A) == Len(A)
TimePoints(A) == Cardinality(DOMAIN A[1])
Width(A) == Len(A[1][0])

\* ------------------------------------------------------ random source
\* one step of the generator's state
NextRandom(x) == (5 * x + 3) % 16

RECURSIVE Stream(_, _)
\* the generator's state after k draws
Stream(x, k) == IF k = 0 THEN x ELSE Stream(NextRandom(x), k - 1)

\* the k-th standard normal draw from state x, as one of -1, 0, 1
Normal(x, k) == (Stream(x, k) % 3) - 1

\* ------------------------------------------- the problem (the subclass)
\* the four problem functions a subclass may implement
Methods == {"phi_tf", "g_tf", "mu_tf", "sigma_tf"}

\* only the two methods whose base bodies are `pass`
AbstractMethodsWithoutDefaults == {"phi_tf", "g_tf"}

\* the methods FBSNN decorates with @abstractmethod
AbstractMethods == {"phi_tf", "g_tf", "mu_tf", "sigma_tf"}

\* ABC refuses to instantiate a class that leaves an abstract method
\* unimplemented
Instantiable(c) == AbstractMethods \subseteq c.implemented

\* phi_tf of the subclass: M x 1
phi_tf(c, t, X, Y, Z) == [i \in 1..Len(X) |-> c.phi]

\* g_tf of the subclass: M x 1.  A g written as a constant tensor does not
\* depend on X; a g computed from X does.
g_tf(c, X) ==
    [i \in 1..Len(X) |->
        IF c.g.fromX THEN c.g.c * Sum(X[i], Len(X[i])) ELSE c.g.c]

\* mu_tf of the subclass: M x D
mu_tf(c, t, X, Y, Z) == [i \in 1..Len(X) |-> [d \in 1..Len(X[i]) |-> c.mu]]

\* sigma_tf of the subclass: M x D x D, a multiple of tf.linalg.diag(ones)
sigma_tf(c, t, X, Y) ==
    [i \in 1..Len(X) |->
        [d \in 1..Len(X[i]) |->
            [e \in 1..Len(X[i]) |-> IF d = e THEN c.sigma ELSE 0]]]

\* ------------------------------------------------------- the network
\* FeedForwardSubNet.call on tf.concat([t, X], 1), and tape.gradient(u, X)
net_u(p, t, X) ==
    [u  |-> [i \in 1..Len(X) |->
                p.bias + p.kernel[1] * t[i]
                + Sum([d \in 1..Len(X[i]) |-> p.kernel[d + 1] * X[i][d]],
                      Len(X[i]))],
     Du |-> [i \in 1..Len(X) |-> [d \in 1..Len(X[i]) |-> p.kernel[d + 1]]]]

\* tape.gradient(g, X): None when g is not connected to X
Dg_tf(c, X) ==
    [isNone |-> ~c.g.fromX,
     grad |-> [i \in 1..Len(X) |-> [d \in 1..Len(X[i]) |-> c.g.c]]]

\* ------------------------------------------------------ tensor helpers
\* tf.matmul(sigma, tf.expand_dims(dW, -1)): sigma is R x D x D, dW is
\* Rw x D; the batch dimensions broadcast.  The trailing axis of size 1 is
\* left implicit: the result is indexed [row][d].
MatMul(sigma, dW) ==
    LET R == Max(Len(sigma), Len(dW))
        D == Len(sigma[1])
    IN  [i \in 1..R |->
            [d \in 1..D |->
                Sum([e \in 1..D |->
                        sigma[IF Len(sigma) = 1 THEN 1 ELSE i][d][e]
                        * dW[IF Len(dW) = 1 THEN 1 ELSE i][e]], D)]]

\* whether tf.matmul accepts an R x D x D tensor and an Rw x Dw x 1 tensor:
\* the inner dimensions agree and the batch dimensions broadcast
MatMulOK(R, D, Rw, Dw) ==
    /\ Dw = D
    /\ (Rw = R \/ Rw = 1 \/ R = 1)

\* tf.squeeze(A, axis=[-1]) of an R x D x 1 tensor: R x D
SqueezeLast(ms) == ms

\* tf.squeeze(A) of an R x D x 1 tensor: EVERY axis of size 1 is removed.
\* The result is a tensor of rank 0, 1 or 2: its shape and its entries.
SqueezeAll(ms) ==
    LET R == Len(ms)
        D == Len(ms[1])
        shape == SelectSeq(<<R, D, 1>>, LAMBDA k : k # 1)
    IN  [shape |-> shape,
         at |-> IF Len(shape) = 2
                THEN [ix \in {<<i, d>> : i \in 1..R, d \in 1..D} |->
                        ms[ix[1]][ix[2]]]
                ELSE IF Len(shape) = 1
                THEN [ix \in {<<k>> : k \in 1..shape[1]} |->
                        IF R > 1 THEN ms[ix[1]][1] ELSE ms[1][ix[1]]]
                ELSE [ix \in {<<>>} |-> ms[1][1]]]

\* the entry [i][j] of tensor B broadcast against a rank-2 tensor
BroadcastAt(B, i, j) ==
    IF Len(B.shape) = 2 THEN B.at[<<i, j>>]
    ELSE IF Len(B.shape) = 1 THEN B.at[<<j>>]
    ELSE B.at[<<>>]

\* tf.reduce_sum(A * B, axis=1, keepdims=True), A of rank 2 (R x C) and B of
\* rank <= 2, with numpy broadcasting: M x 1
MulReduceSum(A, B) ==
    LET C == Len(A[1])
        Cb == IF Len(B.shape) = 0 THEN 1 ELSE B.shape[Len(B.shape)]
        cols == Max(C, Cb)
    IN  [i \in 1..Len(A) |->
            Sum([j \in 1..cols |->
                    A[i][IF C = 1 THEN 1 ELSE j] * BroadcastAt(B, i, j)],
                cols)]

\* ------------------------------------------------------ loss_function
Raise(evals) ==
    [status |-> "error", loss |-> 0, X |-> <<>>, Y |-> <<>>, Y000 |-> 0,
     Y1_tilde |-> <<>>, evals |-> evals]

\* the body of `for n in range(0, self.N)` at step s.n, from the running
\* variables s
LoopBody(slf, c, p, t, W, s) ==
    LET n  == s.n
        t0 == [i \in 1..Len(t) |-> t[i][n]]
        t1 == [i \in 1..Len(t) |-> t[i][n + 1]]
        dW == [i \in 1..Len(W) |->
                 [d \in 1..Len(W[i][n]) |-> W[i][n + 1][d] - W[i][n][d]]]
        sg == sigma_tf(c, t0, s.X0, s.Y0)
        mu == mu_tf(c, t0, s.X0, s.Y0, s.Z0)
        ph == phi_tf(c, t0, s.X0, s.Y0, s.Z0)
        m1 == SqueezeLast(MatMul(sg, dW))
        X1 == [i \in 1..Len(m1) |->
                 [d \in 1..slf.D |->
                    s.X0[IF Len(s.X0) = 1 THEN 1 ELSE i][d]
                    + mu[IF Len(mu) = 1 THEN 1 ELSE i][d]
                      * (t1[IF Len(t1) = 1 THEN 1 ELSE i]
                         - t0[IF Len(t0) = 1 THEN 1 ELSE i])
                    + m1[i][d]]]
        zs == MulReduceSum(s.Z0, SqueezeAll(MatMul(sg, dW)))
        Y1_tilde == [i \in 1..slf.M |->
                       s.Y0[i] + ph[i] * (t1[i] - t0[i]) + zs[i]]
        nu == net_u(p, t1, X1)
    IN  [n |-> n + 1, X0 |-> X1, Y0 |-> nu.u, Z0 |-> nu.Du,
         loss |-> s.loss
                  + Sum([i \in 1..slf.M |-> Square(nu.u[i] - Y1_tilde[i])],
                        slf.M),
         X_list |-> Append(s.X_list, X1),
         Y_list |-> Append(s.Y_list, nu.u),
         Yt_list |-> Append(s.Yt_list, Y1_tilde)]

\* whether the loop body at step n runs without an exception: the slices
\* t[:,n+1,:] and W[:,n+1,:] exist, tf.matmul accepts the shapes, and the
\* concat in net_u gets as many rows of X1 (those of the product) as of t1
LoopBodyOK(slf, t, W, n) ==
    /\ (n + 1) \in DOMAIN t[1]
    /\ (n + 1) \in DOMAIN W[1]
    /\ MatMulOK(slf.M, slf.D, Len(W), Len(W[1][0]))
    /\ Max(slf.M, Len(W)) = Len(t)

RECURSIVE Loop(_, _, _, _, _, _)
Loop(slf, c, p, t, W, s) ==
    IF s.n < slf.N
    THEN IF LoopBodyOK(slf, t, W, s.n)
         THEN Loop(slf, c, p, t, W, LoopBody(slf, c, p, t, W, s))
         ELSE Raise(s.n + 1)
    ELSE LET g  == g_tf(c, s.X0)
             Dg == Dg_tf(c, s.X0)
         IN  IF Dg.isNone
             THEN Raise(s.n + 1)
             ELSE [status |-> "ok",
                   loss |-> s.loss
                     + Sum([i \in 1..slf.M |-> Square(s.Y0[i] - g[i])], slf.M)
                     + Sum([i \in 1..slf.M |->
                              Sum([d \in 1..slf.D |->
                                     Square(s.Z0[i][d] - Dg.grad[i][d])], slf.D)],
                           slf.M),
                   X |-> [i \in 1..slf.M |->
                            [n \in 0..slf.N |-> s.X_list[n + 1][i]]],
                   Y |-> [i \in 1..slf.M |->
                            [n \in 0..slf.N |-> s.Y_list[n + 1][i]]],
                   Y000 |-> s.Y_list[1][1],
                   Y1_tilde |-> s.Yt_list,
                   evals |-> s.n + 1]

\* loss_function(t, W, Xi) of the instance slf of class c with network
\* parameters p.  status is "error" when the code raises, and evals counts
\* the network evaluations made before that.  Y1_tilde records the targets of
\* the steps (a local of the loop, kept for observation).
loss_function(slf, c, p, t, W, Xi) ==
    IF Len(t) # slf.M
    THEN Raise(0)
    ELSE LET t0 == [i \in 1..Len(t) |-> t[i][0]]
             X0 == [i \in 1..slf.M |-> Xi]
             nu == net_u(p, t0, X0)
         IN  Loop(slf, c, p, t, W,
                  [n |-> 0, X0 |-> X0, Y0 |-> nu.u, Z0 |-> nu.Du, loss |-> 0,
                   X_list |-> <<X0>>, Y_list |-> <<nu.u>>, Yt_list |-> <<>>])

\* ----------------------------------------------------- fetch_minibatch
\* every entry set to dt, the entry of step 0 included
DtArrayAllSteps(M, N, dt) == [i \in 1..M |-> [n \in 0..N |-> dt]]

\* Dt[:,1:,:] = dt on np.zeros((M,N+1,1))
DtArray(M, N, dt) == [i \in 1..M |-> [n \in 0..N |-> IF n = 0 THEN 0 ELSE dt]]

\* DW[:,1:,:] = np.sqrt(dt)*np.random.normal(size=(M,N,D)) on np.zeros, the
\* draws taken in row-major order from the generator in state x
DWArray(M, N, D, dt, x) ==
    [i \in 1..M |->
        [n \in 0..N |->
            [d \in 1..D |->
                IF n = 0 THEN 0
                ELSE Sqrt(dt) * Normal(x, ((i - 1) * N + (n - 1)) * D + d)]]]

\* paths of the given shape: the cumulative sums along the time axis
Paths(M, N, D, dt, x) ==
    LET Dt == DtArray(M, N, dt)
        DW == DWArray(M, N, D, dt, x)
    IN  [t |-> [i \in 1..M |-> [n \in 0..N |-> CumSum(Dt[i], n)]],
         W |-> [i \in 1..M |->
                  [n \in 0..N |->
                     [d \in 1..D |->
                        CumSum([m \in 0..N |-> DW[i][m][d]], n)]]]]

\* fetch_minibatch() with the generator in state x
fetch_minibatch(slf, x) == Paths(slf.M, slf.N, slf.D, slf.T \div slf.N, x)

\* ------------------------------------------------------------- state
VARIABLES
    cls,            \* the subclass: the methods it implements, their bodies
    ctor,           \* the arguments the program passes to the constructor
    inst,           \* "none", "ok" (constructed) or "TypeError"
    self,           \* the instance's attributes Xi, T, M, N, D
    model,          \* self.model: the trainable variables kernel and bias
    optimizer,      \* self.optimizer: learning_rate and iterations
    rng,            \* state of numpy's process-wide random generator
    pc,             \* the trainer: "Idle" or "Running" (inside train)
    it,             \* train's loop variable
    N_Iter,         \* train's argument
    learning_rate,  \* train's argument
    batch,          \* train's locals t_batch, W_batch
    records,        \* what the current train call has printed
    out,            \* the last direct call: its name, arguments, result
    fetches,        \* direct fetch_minibatch calls made
    rates,          \* the learning rates of the train calls made so far
    nfetch,         \* fetch_minibatch calls made by the current train call
    nstep,          \* optimizer steps made by the current train call
    usedRate,       \* the learning rate the last optimizer step used
    raised          \* whether the last train call ended by an exception

vars == <<cls, ctor, inst, self, model, optimizer, rng, pc, it, N_Iter,
          learning_rate, batch, records, out, fetches, rates, nfetch, nstep,
          usedRate, raised>>

NoInstance == [Xi |-> <<>>, T |-> 0, M |-> 0, N |-> 0, D |-> 0]
NoModel == [kernel |-> <<>>, bias |-> 0]
NoOptimizer == [learning_rate |-> 0, iterations |-> 0]
NoBatch == [t |-> <<>>, W |-> <<>>]
NoOut == [op |-> "none", in |-> <<>>, res |-> <<>>]

\* the subclasses: which of the four methods they implement, and the
\* coefficients of the bodies
Classes ==
    [implemented : {Methods},
     phi : 0..MaxCoef, mu : 0..MaxCoef, sigma : 0..MaxCoef,
     g : [fromX : BOOLEAN, c : 0..MaxCoef]]
    \cup
    [implemented : (SUBSET Methods) \ {Methods},
     phi : {0}, mu : {0}, sigma : {1}, g : [fromX : {TRUE}, c : {0}]]

\* the initial point of dimension D the runs use
Xi0(D) == [d \in 1..D |-> d]

\* the configurations (M, N, D)
AllDims == (1..MaxM) \X (1..MaxN) \X (1..MaxD)

\* the constructor arguments (Xi, T, M, N, D, layers) and the draw of the
\* kernel initializer, for the configurations dims, sqrt(T/N) in roots
Ctors(dims, roots, seeds) ==
    UNION {
        [Xi : {Xi0(mnd[3])}, T : {mnd[2] * r * r : r \in roots},
         M : {mnd[1]}, N : {mnd[2]}, D : {mnd[3]},
         layers : {<<mnd[3] + 1, 1>>}, seed : seeds] :
        mnd \in dims}

\* FeedForwardSubNet(layers) with layers = [D+1, 1]: the output Dense layer,
\* kernel from GlorotNormal, bias zero
FeedForwardSubNet(layers, seed) ==
    [kernel |-> [k \in 1..layers[1] |-> Normal(seed, k)], bias |-> 0]

InitOf(classes, ctors, seeds) ==
    /\ cls \in classes
    /\ ctor \in ctors
    /\ inst = "none"
    /\ self = NoInstance
    /\ model = NoModel
    /\ optimizer = NoOptimizer
    /\ rng \in seeds
    /\ pc = "Idle"
    /\ it = 0
    /\ N_Iter = 0
    /\ learning_rate = 0
    /\ batch = NoBatch
    /\ records = <<>>
    /\ out = NoOut
    /\ fetches = 0
    /\ rates = <<>>
    /\ nfetch = 0
    /\ nstep = 0
    /\ usedRate = 0
    /\ raised = FALSE

Init == InitOf(Classes, Ctors(AllDims, {1}, 0..MaxSeed), 0..MaxSeed)

\* ---------------------------------------------------------- __init__
\* instantiating the subclass: ABC's check, then FBSNN.__init__
Construct ==
    /\ inst = "none"
    /\ IF Instantiable(cls)
       THEN /\ inst' = "ok"
            /\ self' = [Xi |-> ctor.Xi, T |-> ctor.T, M |-> ctor.M,
                        N |-> ctor.N, D |-> ctor.D]
            /\ model' = FeedForwardSubNet(ctor.layers, ctor.seed)
            /\ optimizer' = [learning_rate |-> DefaultRate, iterations |-> 0]
       ELSE /\ inst' = "TypeError"
            /\ UNCHANGED <<self, model, optimizer>>
    /\ UNCHANGED <<cls, ctor, rng, pc, it, N_Iter, learning_rate, batch,
                   records, out, fetches, rates, nfetch, nstep, usedRate,
                   raised>>

\* ------------------------------------------------- direct method calls
\* the shapes (trajectories and steps of t, trajectories, steps and width of
\* W) of the arrays a caller may pass: the configured one and mismatches
Shapes(slf) ==
    {[Mt |-> slf.M, Nt |-> slf.N, Mw |-> slf.M, Nw |-> slf.N, Dw |-> slf.D],
     [Mt |-> slf.M, Nt |-> slf.N + 1, Mw |-> slf.M, Nw |-> slf.N + 1,
      Dw |-> slf.D],
     [Mt |-> slf.M, Nt |-> slf.N - 1, Mw |-> slf.M, Nw |-> slf.N - 1,
      Dw |-> slf.D],
     [Mt |-> slf.M, Nt |-> slf.N, Mw |-> 1, Nw |-> slf.N, Dw |-> slf.D],
     [Mt |-> slf.M + 1, Nt |-> slf.N, Mw |-> slf.M + 1, Nw |-> slf.N,
      Dw |-> slf.D],
     [Mt |-> slf.M, Nt |-> slf.N, Mw |-> slf.M, Nw |-> slf.N,
      Dw |-> slf.D + 1]}

\* time and noise arrays of shape sh that the caller generated beforehand
\* from the random source in state x
External(slf, sh, x) ==
    [t |-> Paths(sh.Mt, sh.Nt, 1, slf.T \div slf.N, x).t,
     W |-> Paths(sh.Mw, sh.Nw, sh.Dw, slf.T \div slf.N, x).W,
     Xi |-> slf.Xi]

\* whether the arrays agree with the configured M, N, D
ShapesAgree(slf, t, W) ==
    /\ Rows(t) = slf.M /\ TimePoints(t) = slf.N + 1
    /\ Rows(W) = slf.M /\ TimePoints(W) = slf.N + 1 /\ Width(W) = slf.D

Unchanged_direct ==
    UNCHANGED <<cls, ctor, inst, self, model, optimizer, pc, it, N_Iter,
                learning_rate, batch, records, rates, nfetch, nstep,
                usedRate, raised>>

\* a direct call of fetch_minibatch()
CallFetchMinibatch ==
    /\ inst = "ok" /\ pc = "Idle"
    /\ fetches < MaxFetch
    /\ fetches' = fetches + 1
    /\ out' = [op |-> "fetch_minibatch", in |-> <<>>,
               res |-> fetch_minibatch(self, rng)]
    /\ rng' = Stream(rng, self.M * self.N * self.D)
    /\ Unchanged_direct

\* a direct call of loss_function(t, W, self.Xi) on the arrays the last
\* fetch_minibatch() returned
CallLossFunction ==
    /\ inst = "ok" /\ pc = "Idle"
    /\ out.op = "fetch_minibatch"
    /\ out' = [op |-> "loss_function",
               in |-> [t |-> out.res.t, W |-> out.res.W, Xi |-> self.Xi],
               res |-> loss_function(self, cls, model, out.res.t, out.res.W,
                                     self.Xi)]
    /\ UNCHANGED <<rng, fetches>>
    /\ Unchanged_direct

\* predict(Xi_star, t_star, W_star): X_star and Y_star of loss_function
predict(slf, c, p, Xi_star, t_star, W_star) ==
    LET r == loss_function(slf, c, p, t_star, W_star, Xi_star)
    IN  [status |-> r.status, X |-> r.X, Y |-> r.Y, evals |-> r.evals]

\* predict run through the training path: it applies an optimizer step
PredictThenStep ==
    /\ inst = "ok" /\ pc = "Idle"
    /\ \E sh \in Shapes(self) :
          LET a == External(self, sh, rng)
          IN  /\ out' = [op |-> "predict", in |-> a,
                         res |-> predict(self, cls, model, a.Xi, a.t, a.W)]
              /\ model' = [model EXCEPT !.bias = @ - optimizer.learning_rate]
    /\ UNCHANGED <<cls, ctor, inst, self, optimizer, rng, pc, it, N_Iter,
                   learning_rate, batch, records, fetches, rates, nfetch,
                   nstep, usedRate, raised>>

Predict ==
    /\ inst = "ok" /\ pc = "Idle"
    /\ \E sh \in Shapes(self) :
          LET a == External(self, sh, rng)
          IN  out' = [op |-> "predict", in |-> a,
                      res |-> predict(self, cls, model, a.Xi, a.t, a.W)]
    /\ UNCHANGED <<rng, fetches>>
    /\ Unchanged_direct

\* ----------------------------------------------------------- train
\* the parameters p with trainable variable k (0: the bias, k >= 1: the
\* kernel's entry k) shifted by e
Shift(p, k, e) ==
    IF k = 0
    THEN [p EXCEPT !.bias = @ + e]
    ELSE [p EXCEPT !.kernel[k] = @ + e]

\* tape.gradient(loss, self.model.trainable_variables): the loss is a
\* quadratic in each trainable variable, so the central difference with step
\* 1 is its exact partial derivative
tape_gradient(slf, c, p, t, W, Xi) ==
    LET L(q) == loss_function(slf, c, q, t, W, Xi).loss
        d(k) == (L(Shift(p, k, 1)) - L(Shift(p, k, -1))) \div 2
    IN  [kernel |-> [k \in 1..Len(p.kernel) |-> d(k)], bias |-> d(0)]

\* self.optimizer.apply_gradients(...): one Adam step, every trainable
\* variable moved by learning_rate against the sign of its gradient (Adam's
\* normalised update m/(sqrt(v)+eps) at its first step)
apply_gradients(opt, p, g) ==
    [kernel |-> [k \in 1..Len(p.kernel) |->
                    p.kernel[k] - opt.learning_rate * Sign(g.kernel[k])],
     bias |-> p.bias - opt.learning_rate * Sign(g.bias)]

\* the line train prints at iteration i: It, Loss, Y0, Learning Rate (the
\* elapsed wall time is not modelled)
Record(i, loss, Y0_value, rate) ==
    [it |-> i, loss |-> loss, Y0 |-> Y0_value, rate |-> rate]

\* the optimizer left with the rate it had
keep_learning_rate(opt, r) == opt

\* self.optimizer.learning_rate = learning_rate
set_learning_rate(opt, r) == [opt EXCEPT !.learning_rate = r]

\* train(N_Iter, learning_rate) up to the loop
TrainCall ==
    /\ inst = "ok" /\ pc = "Idle"
    /\ Len(rates) < MaxCalls
    /\ \E n \in 1..(MaxSteps - optimizer.iterations), r \in 1..MaxRate :
          /\ N_Iter' = n
          /\ learning_rate' = r
          /\ optimizer' = set_learning_rate(optimizer, r)
          /\ rates' = Append(rates, r)
    /\ pc' = "Running"
    /\ it' = 0
    /\ records' = <<>>
    /\ nfetch' = 0
    /\ nstep' = 0
    /\ raised' = FALSE
    /\ out' = NoOut
    /\ UNCHANGED <<cls, ctor, inst, self, model, rng, batch, fetches,
                   usedRate>>

\* one iteration of `for it in range(N_Iter)`
TrainIter ==
    /\ pc = "Running"
    /\ it < N_Iter
    /\ LET b == fetch_minibatch(self, rng)
           r == loss_function(self, cls, model, b.t, b.W, self.Xi)
           g == tape_gradient(self, cls, model, b.t, b.W, self.Xi)
           stepped == apply_gradients(optimizer, model, g)
           again == loss_function(self, cls, stepped, b.t, b.W, self.Xi)
       IN  /\ batch' = b
           /\ rng' = Stream(rng, self.M * self.N * self.D)
           /\ nfetch' = nfetch + 1
           /\ IF r.status = "error"
              THEN /\ pc' = "Idle"
                   /\ raised' = TRUE
                   /\ UNCHANGED <<model, optimizer, it, records, nstep,
                                  usedRate>>
              ELSE /\ model' = stepped
                   /\ optimizer' = [optimizer EXCEPT !.iterations = @ + 1]
                   /\ usedRate' = optimizer.learning_rate
                   /\ nstep' = nstep + 1
                   /\ records' =
                        IF it % ReportEvery = 0
                        THEN Append(records,
                                    Record(it, r.loss, again.Y000,
                                           learning_rate))
                        ELSE records
                   /\ it' = it + 1
                   /\ UNCHANGED <<pc, raised>>
    /\ UNCHANGED <<cls, ctor, inst, self, N_Iter, learning_rate, out,
                   fetches, rates>>

\* the loop is exhausted: train returns
TrainReturn ==
    /\ pc = "Running"
    /\ it = N_Iter
    /\ pc' = "Idle"
    /\ UNCHANGED <<cls, ctor, inst, self, model, optimizer, rng, it, N_Iter,
                   learning_rate, batch, records, out, fetches, rates,
                   nfetch, nstep, usedRate, raised>>

Next == Construct \/ CallFetchMinibatch \/ CallLossFunction \/ Predict

Spec == Init /\ [][Next]_vars

\* the runs that train: one trajectory count per class, one step
TrainDims == (1..MaxM) \X {1} \X {1}

\* the subclasses whose mu_tf and sigma_tf are the base class's bodies
\* (zero drift, identity diffusion)
TrainClasses == {c \in Classes : c.mu = 0 /\ c.sigma = 1}

InitTrain == InitOf(TrainClasses, Ctors(TrainDims, {1}, {0}), {0})

NextTrain ==
    \/ Construct
    \/ CallFetchMinibatch
    \/ CallLossFunction
    \/ Predict
    \/ TrainCall
    \/ TrainIter
    \/ TrainReturn

SpecTrain == InitTrain /\ [][NextTrain]_vars

\* the runs that only sample paths: every configuration and both time steps
PathClasses ==
    {c \in Classes :
        /\ c.implemented = Methods
        /\ c.phi = 0 /\ c.mu = 0 /\ c.sigma = 1 /\ c.g = [fromX |-> TRUE, c |-> 0]}

InitPaths ==
    InitOf(PathClasses, Ctors(AllDims, 1..MaxSqrtDt, {0}), 0..MaxSeed)

NextPaths == Construct \/ CallFetchMinibatch

SpecPaths == InitPaths /\ [][NextPaths]_vars

\* =============================================================== claims
\* the target of trajectory i at step n computed from that trajectory's own
\* values: Y0[i] + phi[i]*(t1-t0)[i] + sum_d Z0[i,d]*(sigma[i] (W1-W0)[i])[d]
OwnTarget(r, a, i, n) ==
    LET X0 == [j \in 1..self.M |-> r.X[j][n]]
        Y0 == [j \in 1..self.M |-> r.Y[j][n]]
        t0 == [j \in 1..self.M |-> a.t[j][n]]
        Z0 == net_u(model, t0, X0).Du
        sg == sigma_tf(cls, t0, X0, Y0)
        dW == [d \in 1..self.D |-> a.W[i][n + 1][d] - a.W[i][n][d]]
    IN  Y0[i]
        + phi_tf(cls, t0, X0, Y0, Z0)[i] * (a.t[i][n + 1] - a.t[i][n])
        + Sum([d \in 1..self.D |->
                 Z0[i][d]
                 * Sum([e \in 1..self.D |-> sg[i][d][e] * dW[e]], self.D)],
              self.D)

\* C1: in every step n of loss_function, for every batch size M and every
\* dimension D, the target Y1_tilde[i] of trajectory i is the one computed
\* from trajectory i's own Y0, phi, dt, Z0 and noise increment; no other
\* trajectory's noise enters it.
C1_TargetFromOwnTrajectory ==
    (out.op = "loss_function" /\ out.res.status = "ok") =>
        \A n \in 0..(self.N - 1), i \in 1..self.M :
            out.res.Y1_tilde[n + 1][i] = OwnTarget(out.res, out.in, i, n)

\* the records the loop has printed once `done` iterations are complete: one
\* for every multiple of 10 below `done`, in increasing order
ExpectedReports(done) ==
    [k \in 1..((done + ReportEvery - 1) \div ReportEvery) |->
        (k - 1) * ReportEvery]

\* C2: a call train(iterations, learningRate) emits a record exactly at the
\* iterations it with it % 10 = 0, in increasing order; iteration 0 is
\* always reported when iterations >= 1; at most floor(iterations/10)+1
\* records are emitted.
C2_ReportCadence ==
    LET its == [k \in 1..Len(records) |-> records[k].it]
    IN  /\ pc = "Running" => its = ExpectedReports(it)
        /\ (pc = "Idle" /\ rates # <<>>) =>
              /\ its = ExpectedReports(N_Iter)
              /\ Len(records) >= 1
              /\ Len(records) <= (N_Iter \div ReportEvery) + 1

\* C3: at every reporting iteration the loss and the Y0 estimate of the
\* record are both the values re-evaluated on that iteration's batch with
\* the already updated parameters, and no additional optimizer step is made.
C3_RecordIsReevaluated ==
    (pc = "Running" /\ it > 0 /\ (it - 1) % ReportEvery = 0) =>
        LET rec == records[Len(records)]
            r == loss_function(self, cls, model, batch.t, batch.W, self.Xi)
        IN  /\ rec.it = it - 1
            /\ rec.loss = r.loss
            /\ rec.Y0 = r.Y000
            /\ nstep = it

\* C4: every call train(iterations, learningRate) with iterations >= 1 runs
\* exactly `iterations` loop iterations, each with exactly one
\* fetch_minibatch and one optimizer step, with no early exit, and the
\* trainer is Idle afterwards.
C4_RunsExactlyNIter ==
    /\ pc = "Running" => (it <= N_Iter /\ nfetch = it /\ nstep = it)
    /\ (pc = "Idle" /\ rates # <<>>) =>
          (it = N_Iter /\ nfetch = N_Iter /\ nstep = N_Iter /\ ~raised)

C6_ShapeMismatchFailsFast ==
    (out.op = "predict" /\ ~ShapesAgree(self, out.in.t, out.in.W)) =>
        (out.res.status = "error" /\ out.res.evals = 0)

\* C7: constructing an instance of a class that does not implement every one
\* of phi_tf, g_tf, mu_tf and sigma_tf fails at construction time; no train,
\* predict, loss_function or fetch_minibatch call runs on such an instance.
C7_IncompleteClassFailsAtConstruction ==
    cls.implemented # Methods =>
        /\ inst \in {"none", "TypeError"}
        /\ self = NoInstance /\ model = NoModel
        /\ out = NoOut /\ rates = <<>> /\ pc = "Idle"

C7_Witness ==
    /\ inst = "TypeError"
    /\ cls.implemented = {"phi_tf", "g_tf", "sigma_tf"}

\* C8: for all valid (M, N, D, T), fetch_minibatch returns a time array of
\* shape (M, N+1, 1) and a noise array of shape (M, N+1, D) whose entry 0 is
\* zero for every trajectory and dimension, and the cumulative time at step
\* n is n*T/N for every trajectory.
C8_PathShapesAndTimes ==
    out.op = "fetch_minibatch" =>
        LET t == out.res.t
            W == out.res.W
        IN  /\ DOMAIN t = 1..self.M /\ DOMAIN W = 1..self.M
            /\ \A i \in 1..self.M :
                  /\ DOMAIN t[i] = 0..self.N
                  /\ DOMAIN W[i] = 0..self.N
                  /\ t[i][0] = 0
                  /\ \A n \in 0..self.N :
                        /\ t[i][n] * self.N = n * self.T
                        /\ DOMAIN W[i][n] = 1..self.D
                  /\ \A d \in 1..self.D : W[i][0][d] = 0

C8_Witness ==
    /\ out.op = "fetch_minibatch"
    /\ self.M = MaxM /\ self.N = MaxN /\ self.D = MaxD
    /\ self.T = 4 * self.N
    /\ \E i \in 1..self.M, d \in 1..self.D : out.res.W[i][self.N][d] # 0

\* C9: when mu, sigma and phi are zero-valued and g(X) = 0, loss_function
\* succeeds, the recorded X equals Xi at every step for every trajectory, and
\* the loss is the sum over steps and trajectories of (Y1 - Y0)^2 plus the
\* terminal terms sum (Y_N)^2 and sum (Z_N)^2.
C9_ZeroProblemCollapses ==
    (/\ out.op = "loss_function"
     /\ cls.mu = 0 /\ cls.sigma = 0 /\ cls.phi = 0 /\ cls.g.c = 0) =>
        LET r == out.res
            Z_N == net_u(model, [i \in 1..self.M |-> out.in.t[i][self.N]],
                         [i \in 1..self.M |-> self.Xi]).Du
        IN  /\ r.status = "ok"
            /\ \A i \in 1..self.M, n \in 0..self.N : r.X[i][n] = self.Xi
            /\ r.loss =
                  Sum([i \in 1..self.M |->
                         Sum([n \in 1..self.N |->
                                Square(r.Y[i][n] - r.Y[i][n - 1])], self.N)],
                      self.M)
                  + Sum([i \in 1..self.M |-> Square(r.Y[i][self.N])], self.M)
                  + Sum([i \in 1..self.M |->
                           Sum([d \in 1..self.D |-> Square(Z_N[i][d])],
                               self.D)], self.M)

\* C10: every optimizer step made inside a train call uses the learningRate
\* passed to that call, from the call's first step on and whatever the
\* rates of earlier calls were, and the rate printed in each record is the
\* rate the optimizer is using.
C10_RateOfTheCall ==
    /\ pc = "Running" => optimizer.learning_rate = learning_rate
    /\ nstep > 0 =>
          (usedRate = learning_rate /\ usedRate = rates[Len(rates)])
    /\ \A k \in 1..Len(records) :
          records[k].rate = optimizer.learning_rate

C10_Witness ==
    /\ Len(rates) = 2 /\ rates[1] # rates[2]
    /\ nstep = 1 /\ usedRate = rates[2]
    /\ optimizer.iterations >= 2
    /\ Len(records) = 1

====
